---- MODULE Spec2Model ----
(***************************************************************************)
(* A model of the scip-go file visitor (internal/visitors/visitor_file.go), *)
(* of lookup.Local.SignatureText and of git.InferModuleVersion.             *)
(*                                                                          *)
(* A file is a sequence of syntax nodes in source order, one node per line: *)
(* import specs, selector expressions whose qualifier is a package name,    *)
(* and identifiers.  Node i sits on line i; its first identifier starts at  *)
(* column 0 and its second token (import path, selected name) at column 4,  *)
(* so token.Pos p is encoded as  line * 10 + column.                        *)
(***************************************************************************)
EXTENDS Integers, Sequences, FiniteSets, TLC

VARIABLES
    v,        \* the fileVisitor of the first run
    w,        \* the fileVisitor of a second run (another file, or the same file again)
    strict,   \* handler.ErrOrPanic aborts (TRUE) or records and continues (FALSE)
    git       \* the state of one InferModuleVersion call

vars == <<v, w, strict, git>>

\* ------------------------------------------------------------------ bounds
MaxLen == 3
MaxLen2 == 2

\* ------------------------------------------------------- types.Object values
Nil == [kind |-> "nil", name |-> "", pkg |-> "", pos |-> 0, typ |-> "", imported |-> ""]

Obj(kind, name, pkg, pos, typ) ==
    [kind |-> kind, name |-> name, pkg |-> pkg, pos |-> pos, typ |-> typ, imported |-> ""]

\* token.Pos of the first and of the second token of node i
Pos(i) == 10 * i
Pos2(i) == 10 * i + 4

\* token.Position as the file set gives it
Position(pos) == [line |-> pos \div 10, col |-> pos % 10]

\* ----------------------------------------------------------- syntax nodes
Import(name, path) == [k |-> "import", name |-> name, path |-> path, imp |-> 0, tok |-> ""]
PkgSel(j) == [k |-> "pkgsel", name |-> "", path |-> "", imp |-> j, tok |-> ""]
Ident(tok) == [k |-> "ident", name |-> "", path |-> "", imp |-> 0, tok |-> tok]

ImportNodes ==
    {Import(n, "a/b") : n \in {"", ".", "_", "foo", "baz"}}
        \cup {Import(n, "c/d") : n \in {"", "foo"}}
        \cup {Import(n, "e/f") : n \in {"", "foo"}}

\* The identifier tokens: blank (_), defx/usex (a local variable), defL/useL (a
\* label), defG/useG (a package-level function), defH (a declaration only the
\* global index knows), useBar (a dot-imported function), useint (a predeclared
\* type), useU (an entity whose owner is not loaded), none (neither Defs nor
\* Uses), tsv/usev1/usev2 (a type switch variable and its uses in the *T and
\* the default clause), embT/embErr (a field of a package-level struct that
\* embeds a declared type, a predeclared type), embLoc/embLocErr (a field of
\* a function-local struct that embeds a declared type, a predeclared type).

IdentToks ==
    {"blank", "defx", "usex", "defL", "useL", "defG", "useG", "defH", "useBar",
     "useint", "useU", "none", "tsv", "usev1", "usev2", "embT", "embErr",
     "embLoc", "embLocErr"}

Nodes(maxLen) ==
    ImportNodes \cup {PkgSel(j) : j \in 1..(maxLen - 1)} \cup {Ident(t) : t \in IdentToks}

\* ---------------------------------------------------- well-formed files
IsImport(n) == n.k = "import"
IsTok(n, t) == n.k = "ident" /\ n.tok = t
Has(f, t) == \E i \in 1..Len(f) : IsTok(f[i], t)
IndexOf(f, t) == CHOOSE i \in 1..Len(f) : IsTok(f[i], t)

\* the package name an import spec declares in the file scope ("" when none)
DefaultName(path) == IF path = "a/b" THEN "b" ELSE IF path = "c/d" THEN "d" ELSE "f"
DeclaredName(n) ==
    IF n.name \in {".", "_"} THEN "" ELSE IF n.name = "" THEN DefaultName(n.path) ELSE n.name

\* may node n follow the well-formed prefix f (what the compiler accepts)
CanFollow(f, n) ==
    CASE n.k = "import" ->
            /\ \A i \in 1..Len(f) : IsImport(f[i])
            /\ DeclaredName(n) # "" =>
                   \A i \in 1..Len(f) : DeclaredName(f[i]) # DeclaredName(n)
            /\ n.name = "." => \A i \in 1..Len(f) : f[i].name # "."
      [] n.k = "pkgsel" ->
            /\ n.imp \in 1..Len(f)
            /\ IsImport(f[n.imp])
            /\ f[n.imp].name \notin {".", "_"}
            /\ f[n.imp].path # "e/f"
      [] OTHER ->
            CASE n.tok \in {"defx", "defL", "defG", "defH", "tsv", "embT", "embErr", "embLoc",
                            "embLocErr"} ->
                    ~Has(f, n.tok)
              [] n.tok = "usex" -> Has(f, "defx")
              [] n.tok \in {"usev1", "usev2"} -> Has(f, "tsv")
              [] n.tok = "useBar" ->
                    \E i \in 1..Len(f) : IsImport(f[i]) /\ f[i].name = "." /\ f[i].path = "a/b"
              [] OTHER -> TRUE

\* a label may be used before the statement that declares it, never without it
WellFormed(f) ==
    /\ \A i \in 1..Len(f) : CanFollow(SubSeq(f, 1, i - 1), f[i])
    /\ Has(f, "useL") => Has(f, "defL")

\* the files of at most maxLen nodes drawn from a set of nodes
FilesOver(nodes, maxLen) ==
    UNION {{f \in [1..n -> nodes] : WellFormed(f)} : n \in 0..maxLen}

Files(maxLen) == FilesOver(Nodes(maxLen), maxLen)

\* the nodes that mint locals or refer to them, and one package-level declaration
LocalNodes ==
    {Import("foo", "a/b"), PkgSel(1), Ident("defx"), Ident("usex"), Ident("tsv"),
     Ident("usev1"), Ident("defG")}

\* every import resolves, every referenced package is loaded and minted, and
\* every identifier is in Defs or Uses
ValidInput(f) ==
    \A i \in 1..Len(f) :
        /\ IsImport(f[i]) => f[i].path = "a/b"
        /\ ~IsTok(f[i], "useU")
        /\ ~IsTok(f[i], "none")

\* ------------------------------------------------ the type-checker's tables
PkgNameObj(f, j) ==
    [kind |-> "PkgName", name |-> IF f[j].name = "" THEN DefaultName(f[j].path) ELSE f[j].name,
     pkg |-> "self", pos |-> Pos(j), typ |-> "", imported |-> f[j].path]

\* the per-clause variables of the type switch whose header identifier is node i
\* (go/types gives every one of them the header identifier's position)
ClauseVar(i, typ) == Obj("Var", "v", "self", Pos(i), typ)

\* pkg.TypesInfo.Implicits restricted to *ast.CaseClause keys
ImplicitCaseObjs(f) ==
    IF Has(f, "tsv") THEN {ClauseVar(IndexOf(f, "tsv"), t) : t \in {"*T", "I"}} ELSE {}

DeclPos(f, t, elsewhere) == IF Has(f, t) THEN Pos(IndexOf(f, t)) ELSE elsewhere

\* pkg.TypesInfo.Defs[node]
DefsOf(f, i) ==
    LET n == f[i] IN
    CASE n.k = "import" -> IF n.name = "" THEN Nil ELSE PkgNameObj(f, i)
      [] n.k = "pkgsel" -> Nil
      [] OTHER ->
            CASE n.tok = "defx" -> Obj("Var", "x", "self", Pos(i), "int")
              [] n.tok = "defL" -> Obj("Label", "L", "self", Pos(i), "invalid type")
              [] n.tok = "defG" -> Obj("Func", "G", "self", Pos(i), "func()")
              [] n.tok = "defH" -> Obj("Var", "H", "self", Pos(i), "int")
              [] n.tok = "embT" -> Obj("Var", "T", "self", Pos(i), "T")
              [] n.tok \in {"embErr", "embLocErr"} ->
                    Obj("Var", "error", "self", Pos(i), "error")
              [] n.tok = "embLoc" -> Obj("Var", "T", "self", Pos(i), "T")
              [] n.tok = "blank" -> Obj("Var", "_", "self", Pos(i), "int")
              [] OTHER -> Nil

\* pkg.TypesInfo.Uses[node] for the first identifier of node i
UsesOf(f, i) ==
    LET n == f[i] IN
    CASE n.k = "import" -> Nil
      [] n.k = "pkgsel" -> PkgNameObj(f, n.imp)
      [] OTHER ->
            CASE n.tok = "usex" -> Obj("Var", "x", "self", DeclPos(f, "defx", 0), "int")
              [] n.tok = "useL" -> Obj("Label", "L", "self", DeclPos(f, "defL", 0), "invalid type")
              [] n.tok = "useG" -> Obj("Func", "G", "self", DeclPos(f, "defG", 1000), "func()")
              [] n.tok = "useBar" -> Obj("Func", "Bar", "a/b", 2000, "func()")
              [] n.tok = "useint" -> Obj("TypeName", "int", "", 0, "int")
              [] n.tok = "useU" -> Obj("Var", "U", "u/v", 3000, "int")
              [] n.tok = "usev1" -> ClauseVar(IndexOf(f, "tsv"), "*T")
              [] n.tok = "usev2" -> ClauseVar(IndexOf(f, "tsv"), "I")
              [] n.tok = "embT" -> Obj("TypeName", "T", "self", 1001, "T")
              [] n.tok \in {"embErr", "embLocErr"} ->
                    Obj("TypeName", "error", "", 0, "error")
              [] n.tok = "embLoc" -> Obj("TypeName", "T", "self", 1001, "T")
              [] OTHER -> Nil

\* pkg.TypesInfo.Uses[node.Sel] of the selector at node i
SelUsesOf(f, i) ==
    IF f[f[i].imp].path = "a/b" THEN Obj("Func", "Bar", "a/b", 2000, "func()")
    ELSE Obj("Func", "Qux", "c/d", 2001, "func()")

\* an *ast.Ident: its name, its position, its table entries and its static type
IdentName(n) ==
    CASE n.tok = "blank" -> "_"
      [] n.tok \in {"defx", "usex"} -> "x"
      [] n.tok \in {"defL", "useL"} -> "L"
      [] n.tok \in {"defG", "useG"} -> "G"
      [] n.tok = "defH" -> "H"
      [] n.tok = "useBar" -> "Bar"
      [] n.tok = "useint" -> "int"
      [] n.tok = "useU" -> "U"
      [] n.tok = "none" -> "z"
      [] n.tok \in {"embT", "embLoc"} -> "T"
      [] n.tok \in {"embErr", "embLocErr"} -> "error"
      [] OTHER -> "v"

IdentAt(f, i) ==
    LET d == DefsOf(f, i)
        u == UsesOf(f, i)
    IN [name |-> IdentName(f[i]), pos |-> Pos(i), def |-> d, use |-> u,
        typeOf |-> IF u # Nil THEN u.typ ELSE d.typ]

SelIdentAt(f, i) ==
    LET u == SelUsesOf(f, i)
    IN [name |-> u.name, pos |-> Pos2(i), def |-> Nil, use |-> u, typeOf |-> u.typ]

\* ------------------------------------------- symbol tables (lookup package)
GlobalSym(pkg, descriptor) == "scip-go gomod " \o pkg \o " v1 " \o descriptor

\* lookup.Package of the package being indexed: declaring position -> symbol
PkgSymbolTable(f) ==
    {[pos |-> DeclPos(f, "defG", 1000), symbol |-> GlobalSym("self", "G().")],
     [pos |-> 1001, symbol |-> GlobalSym("self", "T#")]}
        \cup (IF Has(f, "embT")
              THEN {[pos |-> Pos(IndexOf(f, "embT")), symbol |-> GlobalSym("self", "S#T.")]}
              ELSE {})
        \cup (IF Has(f, "embErr")
              THEN {[pos |-> Pos(IndexOf(f, "embErr")),
                     symbol |-> GlobalSym("self", "S#error.")]}
              ELSE {})

\* pkgSymbols.GetSymbol(pos)
PkgGetSymbol(f, pos) ==
    IF \E e \in PkgSymbolTable(f) : e.pos = pos
    THEN [ok |-> TRUE, symbol |-> (CHOOSE e \in PkgSymbolTable(f) : e.pos = pos).symbol]
    ELSE [ok |-> FALSE, symbol |-> ""]

\* lookup.Global: (package, declaring position) -> symbol, for every minted package
GlobalTable(f) ==
    {[pkg |-> "self", pos |-> e.pos, symbol |-> e.symbol] : e \in PkgSymbolTable(f)}
        \cup (IF Has(f, "defH")
              THEN {[pkg |-> "self", pos |-> Pos(IndexOf(f, "defH")),
                     symbol |-> GlobalSym("self", "H.")]}
              ELSE {})
        \cup {[pkg |-> "a/b", pos |-> 2000, symbol |-> GlobalSym("a/b", "Bar().")],
              [pkg |-> "c/d", pos |-> 2001, symbol |-> GlobalSym("c/d", "Qux().")]}

\* the packages of the load set
LoadedPkgs == {"self", "a/b", "c/d"}

\* globalSymbols.GetSymbol(pkg, pos)
GlobalGetSymbol(f, pkg, pos) ==
    IF \E e \in GlobalTable(f) : e.pkg = pkg /\ e.pos = pos
    THEN [ok |-> TRUE,
          symbol |-> (CHOOSE e \in GlobalTable(f) : e.pkg = pkg /\ e.pos = pos).symbol]
    ELSE [ok |-> FALSE, symbol |-> ""]

\* globalSymbols.GetSymbolOfObject(obj): an error when the owner is not in the
\* load set, not found for a predeclared entity, else the lookup by the owner
\* and the declaring position
GetSymbolOfObject(f, obj) ==
    IF obj.pkg = "" THEN [ok |-> FALSE, err |-> FALSE, symbol |-> ""]
    ELSE IF obj.pkg \notin LoadedPkgs THEN [ok |-> FALSE, err |-> TRUE, symbol |-> ""]
    ELSE LET r == GlobalGetSymbol(f, obj.pkg, obj.pos)
         IN [ok |-> r.ok, err |-> FALSE, symbol |-> r.symbol]

\* globalSymbols.GetPkgNameSymbol(pkg) / GetPkgNameSymbolByID(id): "" stands for nil
GetPkgNameSymbol(pkg) ==
    IF pkg \in {"self", "a/b"} THEN GlobalSym(pkg, pkg \o "/") ELSE ""

\* pkg.Imports[path]: "" stands for a path that is not loaded
ImportedPackage(path) == IF path = "e/f" THEN "" ELSE path

\* newtypes.GetID(importedPackage)
GetID(pkg) == pkg

\* ------------------------------------------------------------ occurrences
symbolDefinition == 1
symbolReference == 8

\* symbols.RangeFromName(position, name, adjust)
RangeFromName(position, name, adjust) ==
    LET a == IF adjust THEN 1 ELSE 0
    IN <<position.line, position.col + a, position.col + a + Len(name)>>

\* scipRange(position, obj)
scipRange(position, obj) == RangeFromName(position, obj.name, FALSE)

\* symbols.FormatCode(text)
FormatCode(text) == "~~~go " \o text \o " ~~~"

\* doc.PackageOccurrence: the package clause, on line 0
PackageOccurrence ==
    [range |-> <<0, 8, 12>>, symbol |-> GetPkgNameSymbol("self"),
     roles |-> symbolDefinition, doc |-> <<>>]

\* ------------------------------------------------------------ fileVisitor
\* the maps the loop over Implicits can leave in caseClauses: one object per
\* position, whichever object the map iteration stored last
CaseClauseMaps(f) ==
    LET objs == ImplicitCaseObjs(f)
        positions == {o.pos : o \in objs}
    IN {m \in SUBSET {[pos |-> o.pos, obj |-> o] : o \in objs} :
            \A p \in positions : Cardinality({e \in m : e.pos = p}) = 1}

NewFileVisitor(f, cc) ==
    [file |-> f,
     locals |-> {},
     occurrences |-> <<PackageOccurrence>>,
     caseClauses |-> cc,
     pkgNameOverride |-> {},
     cursor |-> 1,
     pc |-> "start",
     symbols |-> <<>>]

\* a visitor that was never started
Idle == [NewFileVisitor(<<>>, {}) EXCEPT !.pc = "idle"]

Panicked(vis) == vis.pc = "panic"
Panic(vis) == [vis EXCEPT !.pc = "panic"]

\* handler.ErrOrPanic: aborts in strict mode, records and returns the error otherwise
ErrOrPanic(vis) == IF strict THEN Panic(vis) ELSE vis

HasLocal(vis, pos) == \E l \in vis.locals : l.pos = pos
LocalAt(vis, pos) == CHOOSE l \in vis.locals : l.pos = pos

HasCaseClause(vis, pos) == \E c \in vis.caseClauses : c.pos = pos
CaseClauseAt(vis, pos) == (CHOOSE c \in vis.caseClauses : c.pos = pos).obj

HasOverride(vis, pkgID) == \E o \in vis.pkgNameOverride : o.pkg = pkgID
OverrideAt(vis, pkgID) == (CHOOSE o \in vis.pkgNameOverride : o.pkg = pkgID).symbol

\* faulty variant: numbers a local by the size of the wrong map
LocalSymbolName_ByOverrides(vis) == "local " \o ToString(Cardinality(vis.pkgNameOverride))

\* faulty variant: numbers the locals from 1
LocalSymbolName_FromOne(vis) == "local " \o ToString(Cardinality(vis.locals) + 1)

\* fmt.Sprintf("local %d", len(v.locals))
LocalSymbolName(vis) == "local " \o ToString(Cardinality(vis.locals))

\* faulty variant: no check for an owned position, the entry is replaced
createNewLocalSymbol_Overwrite(vis, pos, obj) ==
    [vis |-> [vis EXCEPT !.locals =
                  {l \in @ : l.pos # pos}
                      \cup {[pos |-> pos, Symbol |-> LocalSymbolName(vis), Obj |-> obj]}],
     symbol |-> LocalSymbolName(vis)]

\* the visitor after the call, and the symbol returned
createNewLocalSymbol(vis, pos, obj) ==
    IF HasLocal(vis, pos)
    THEN [vis |-> Panic(vis), symbol |-> ""]
    ELSE [vis |-> [vis EXCEPT !.locals =
                       @ \cup {[pos |-> pos, Symbol |-> LocalSymbolName(vis), Obj |-> obj]}],
          symbol |-> LocalSymbolName(vis)]

NewDefinition(vis, symbol, rng) ==
    [vis EXCEPT !.occurrences =
        Append(@, [range |-> rng, symbol |-> symbol, roles |-> symbolDefinition, doc |-> <<>>])]

\* overrideType is the type's String(); "" stands for a nil type
AppendSymbolReference(vis, symbol, rng, overrideType) ==
    [vis EXCEPT !.occurrences =
        Append(@, [range |-> rng, symbol |-> symbol, roles |-> symbolReference,
                   doc |-> IF overrideType # "" THEN <<FormatCode(overrideType)>> ELSE <<>>])]

emitImportReference(vis, position, importedPackage) ==
    IF GetPkgNameSymbol(importedPackage) = ""
    THEN ErrOrPanic(vis)
    ELSE AppendSymbolReference(vis, GetPkgNameSymbol(importedPackage),
                               RangeFromName(position, importedPackage, TRUE), "")

\* faulty variant: treats the "." of a dot-import as an alias
VisitImportSpec_NoDotCheck(vis, i) ==
    LET node == vis.file[i]
        importedPackage == ImportedPackage(node.path)
    IN IF importedPackage = "" THEN vis
       ELSE IF node.name # ""
       THEN LET r == createNewLocalSymbol(vis, Pos(i), DefsOf(vis.file, i))
                d == NewDefinition(r.vis, r.symbol,
                                   RangeFromName(Position(Pos(i)), node.name, FALSE))
                o == [d EXCEPT !.pkgNameOverride =
                         {e \in @ : e.pkg # GetID(importedPackage)}
                             \cup {[pkg |-> GetID(importedPackage), symbol |-> r.symbol]}]
            IN IF Panicked(r.vis) THEN r.vis
               ELSE emitImportReference(o, Position(Pos2(i)), importedPackage)
       ELSE emitImportReference(vis, Position(Pos2(i)), importedPackage)

\* faulty variant: the local of a renamed import is minted and stored as the
\* override, but no definition occurrence is appended for it
VisitImportSpec_NoDefinition(vis, i) ==
    LET node == vis.file[i]
        importedPackage == ImportedPackage(node.path)
    IN IF importedPackage = "" THEN vis
       ELSE IF node.name # "" /\ node.name # "."
       THEN LET r == createNewLocalSymbol(vis, Pos(i), DefsOf(vis.file, i))
                o == [r.vis EXCEPT !.pkgNameOverride =
                         {e \in @ : e.pkg # GetID(importedPackage)}
                             \cup {[pkg |-> GetID(importedPackage), symbol |-> r.symbol]}]
            IN IF Panicked(r.vis) THEN r.vis
               ELSE emitImportReference(o, Position(Pos2(i)), importedPackage)
       ELSE emitImportReference(vis, Position(Pos2(i)), importedPackage)

\* faulty variant: the branch does not end the visit, so the walk goes on into
\* the import's name and the Ident branch declares it a second time
VisitImportSpec_WalksName(vis, i) ==
    LET node == vis.file[i]
        importedPackage == ImportedPackage(node.path)
    IN IF importedPackage = "" THEN vis
       ELSE IF node.name # "" /\ node.name # "."
       THEN LET r == createNewLocalSymbol(vis, Pos(i), DefsOf(vis.file, i))
                d == NewDefinition(r.vis, r.symbol,
                                   RangeFromName(Position(Pos(i)), node.name, FALSE))
                o == [d EXCEPT !.pkgNameOverride =
                         {e \in @ : e.pkg # GetID(importedPackage)}
                             \cup {[pkg |-> GetID(importedPackage), symbol |-> r.symbol]}]
                e == emitImportReference(o, Position(Pos2(i)), importedPackage)
            IN IF Panicked(r.vis) THEN r.vis
               ELSE IF Panicked(e) THEN e
               ELSE LET again == createNewLocalSymbol(e, Pos(i), DefsOf(vis.file, i))
                    IN IF Panicked(again.vis) THEN again.vis
                       ELSE NewDefinition(again.vis, again.symbol,
                                          scipRange(Position(Pos(i)), DefsOf(vis.file, i)))
       ELSE emitImportReference(vis, Position(Pos2(i)), importedPackage)

\* case *ast.ImportSpec, for the import spec at node i
VisitImportSpec(vis, i) ==
    LET node == vis.file[i]
        importedPackage == ImportedPackage(node.path)
    IN IF importedPackage = "" THEN vis
       ELSE IF node.name # "" /\ node.name # "."
       THEN LET r == createNewLocalSymbol(vis, Pos(i), DefsOf(vis.file, i))
                d == NewDefinition(r.vis, r.symbol,
                                   RangeFromName(Position(Pos(i)), node.name, FALSE))
                o == [d EXCEPT !.pkgNameOverride =
                         {e \in @ : e.pkg # GetID(importedPackage)}
                             \cup {[pkg |-> GetID(importedPackage), symbol |-> r.symbol]}]
            IN IF Panicked(r.vis) THEN r.vis
               ELSE emitImportReference(o, Position(Pos2(i)), importedPackage)
       ELSE emitImportReference(vis, Position(Pos2(i)), importedPackage)

\* faulty variant: the global index is not consulted
VisitIdentDef_NoGlobal(vis, id) ==
    LET def == id.def
        position == Position(id.pos)
        fromPkg == PkgGetSymbol(vis.file, def.pos)
    IN IF def = Nil THEN vis
       ELSE IF fromPkg.ok THEN NewDefinition(vis, fromPkg.symbol, scipRange(position, def))
       ELSE LET r == createNewLocalSymbol(vis, def.pos, def)
            IN IF Panicked(r.vis) THEN r.vis
               ELSE NewDefinition(r.vis, r.symbol, scipRange(position, def))

\* case *ast.Ident, "Emit Definition"
VisitIdentDef(vis, id) ==
    LET def == id.def
        position == Position(id.pos)
        fromPkg == PkgGetSymbol(vis.file, def.pos)
        fromGlobal == GlobalGetSymbol(vis.file, "self", def.pos)
    IN IF def = Nil THEN vis
       ELSE IF fromPkg.ok THEN NewDefinition(vis, fromPkg.symbol, scipRange(position, def))
       ELSE IF fromGlobal.ok THEN NewDefinition(vis, fromGlobal.symbol, scipRange(position, def))
       ELSE LET r == createNewLocalSymbol(vis, def.pos, def)
            IN IF Panicked(r.vis) THEN r.vis
               ELSE NewDefinition(r.vis, r.symbol, scipRange(position, def))

\* faulty variant: the reference's range is taken from the referenced entity's
\* declaring position instead of the identifier's own
VisitIdentRef_AtDeclaration(vis, id) ==
    LET ref == id.use
        position == Position(ref.pos)
        found == GetSymbolOfObject(vis.file, ref)
    IN IF ref = Nil THEN vis
       ELSE IF HasLocal(vis, ref.pos)
       THEN AppendSymbolReference(vis, LocalAt(vis, ref.pos).Symbol, scipRange(position, ref),
                                  IF HasCaseClause(vis, ref.pos) THEN id.typeOf ELSE "")
       ELSE IF found.err THEN ErrOrPanic(vis)
       ELSE IF ~found.ok THEN vis
       ELSE AppendSymbolReference(vis, found.symbol, scipRange(position, ref), "")

\* faulty variant: an entity the lookup does not resolve still gets a
\* reference, with the empty symbol of the missing result
VisitIdentRef_EmitUnresolved(vis, id) ==
    LET ref == id.use
        position == Position(id.pos)
        found == GetSymbolOfObject(vis.file, ref)
    IN IF ref = Nil THEN vis
       ELSE IF HasLocal(vis, ref.pos)
       THEN AppendSymbolReference(vis, LocalAt(vis, ref.pos).Symbol, scipRange(position, ref),
                                  IF HasCaseClause(vis, ref.pos) THEN id.typeOf ELSE "")
       ELSE AppendSymbolReference(vis, found.symbol, scipRange(position, ref), "")

\* faulty variant: the override type is the type of the entity stored with the
\* local instead of the static type of the referring node
VisitIdentRef_DeclaredType(vis, id) ==
    LET ref == id.use
        position == Position(id.pos)
        found == GetSymbolOfObject(vis.file, ref)
    IN IF ref = Nil THEN vis
       ELSE IF HasLocal(vis, ref.pos)
       THEN AppendSymbolReference(vis, LocalAt(vis, ref.pos).Symbol, scipRange(position, ref),
                                  IF HasCaseClause(vis, ref.pos)
                                  THEN LocalAt(vis, ref.pos).Obj.typ ELSE "")
       ELSE IF found.err THEN ErrOrPanic(vis)
       ELSE IF ~found.ok THEN vis
       ELSE AppendSymbolReference(vis, found.symbol, scipRange(position, ref), "")

\* case *ast.Ident, "Emit Reference"
VisitIdentRef(vis, id) ==
    LET ref == id.use
        position == Position(id.pos)
        found == GetSymbolOfObject(vis.file, ref)
    IN IF ref = Nil THEN vis
       ELSE IF HasLocal(vis, ref.pos)
       THEN AppendSymbolReference(vis, LocalAt(vis, ref.pos).Symbol, scipRange(position, ref),
                                  IF HasCaseClause(vis, ref.pos) THEN id.typeOf ELSE "")
       ELSE IF found.err THEN ErrOrPanic(vis)
       ELSE IF ~found.ok THEN vis
       ELSE AppendSymbolReference(vis, found.symbol, scipRange(position, ref), "")

\* faulty variant: no short circuit on case clauses
VisitIdent_NoCaseClause(vis, id) ==
    IF id.name = "_" THEN vis
    ELSE LET d == VisitIdentDef(vis, id)
             u == IF Panicked(d) THEN d ELSE VisitIdentRef(d, id)
         IN IF ~Panicked(u) /\ id.def = Nil /\ id.use = Nil THEN ErrOrPanic(u) ELSE u

\* case *ast.Ident
VisitIdent(vis, id) ==
    IF id.name = "_" THEN vis
    ELSE IF HasCaseClause(vis, id.pos)
    THEN LET obj == CaseClauseAt(vis, id.pos)
             r == createNewLocalSymbol(vis, obj.pos, obj)
         IN IF Panicked(r.vis) THEN r.vis
            ELSE NewDefinition(r.vis, r.symbol, scipRange(Position(id.pos), obj))
    ELSE LET d == VisitIdentDef(vis, id)
             u == IF Panicked(d) THEN d ELSE VisitIdentRef(d, id)
         IN IF ~Panicked(u) /\ id.def = Nil /\ id.use = Nil THEN ErrOrPanic(u) ELSE u

\* case *ast.SelectorExpr whose X is an identifier that Uses maps to a PkgName
VisitSelectorExpr(vis, i) ==
    LET sel == UsesOf(vis.file, i)
        position == Position(Pos(i))
        pkgID == sel.imported
        symbolName == IF HasOverride(vis, pkgID) THEN OverrideAt(vis, pkgID)
                      ELSE GetPkgNameSymbol(pkgID)
    IN IF symbolName = "" THEN ErrOrPanic(vis)
       ELSE VisitIdent(AppendSymbolReference(vis, symbolName, scipRange(position, sel), ""),
                       SelIdentAt(vis.file, i))

\* Visit(n) for the node at index i, by the node's dynamic type
Visit(vis, i) ==
    CASE vis.file[i].k = "import" -> VisitImportSpec(vis, i)
      [] vis.file[i].k = "pkgsel" -> VisitSelectorExpr(vis, i)
      [] OTHER -> VisitIdent(vis, IdentAt(vis.file, i))

\* ------------------------------------------------------ lookup.Local
RECURSIVE Join(_, _)
\* strings.Join(parts, sep)
Join(parts, sep) ==
    IF parts = <<>> THEN ""
    ELSE IF Len(parts) = 1 THEN parts[1]
    ELSE parts[1] \o sep \o Join(Tail(parts), sep)

\* (l *Local) SignatureText()
SignatureText(l) ==
    IF l.Obj = Nil THEN ""
    ELSE LET prefix == CASE l.Obj.kind = "Const" -> <<"const">>
                         [] l.Obj.kind = "PkgName" -> <<"import">>
                         [] l.Obj.kind = "Var" -> <<"var">>
                         [] OTHER -> <<>>
             name == IF l.Obj.name # "" THEN <<l.Obj.name>> ELSE <<>>
             last == IF l.Obj.kind = "PkgName"
                     THEN (IF l.Obj.imported # "" THEN <<l.Obj.imported>> ELSE <<>>)
                     ELSE (IF l.Obj.typ # "" THEN <<l.Obj.typ>> ELSE <<>>)
         IN Join(prefix \o name \o last, " ")

\* ---------------------------------------------------- ToScipDocument
RECURSIVE ByPos(_)
\* a set of table entries as a sequence, in the order of their positions
ByPos(S) ==
    IF S = {} THEN <<>>
    ELSE LET m == CHOOSE e \in S : \A o \in S : e.pos <= o.pos
         IN <<m>> \o ByPos(S \ {m})

\* pkgSymbols.SymbolsForFile(documentFile): the metadata of the package-scope
\* symbols declared in this file
SymbolsForFile(f) ==
    LET here == {e \in PkgSymbolTable(f) : e.pos < 1000}
        sorted == ByPos(here)
    IN [k \in 1..Len(sorted) |->
            [symbol |-> sorted[k].symbol, displayName |-> "", signature |-> ""]]

\* the orders in which "for _, local := range v.locals" can deliver the locals
IterationOrders(S) ==
    {o \in [1..Cardinality(S) -> S] : \A a, b \in 1..Cardinality(S) : a # b => o[a] # o[b]}

\* the SymbolInformation built for one local
LocalSymbolInfo(local) ==
    [symbol |-> local.Symbol,
     displayName |-> IF local.Obj # Nil THEN local.Obj.name ELSE "",
     signature |-> IF local.Obj # Nil THEN SignatureText(local) ELSE ""]

\* ToScipDocument, when the map iteration delivers the locals in this order
ToScipDocument(vis, order) ==
    [vis EXCEPT !.symbols = SymbolsForFile(vis.file)
                                \o [k \in 1..Len(order) |-> LocalSymbolInfo(order[k])],
                !.pc = "done"]

\* the *scip.Document a finished visitor returned
Document(vis) == [occurrences |-> vis.occurrences, symbols |-> vis.symbols]

\* ------------------------------------------------------------ traversal
\* ast.Walk calls Visit on the nodes in source order; a panic unwinds it
AtNode(vis, kind) ==
    /\ vis.pc = "decls"
    /\ vis.cursor <= Len(vis.file)
    /\ vis.file[vis.cursor].k = kind

Advance(vis) == IF Panicked(vis) THEN vis ELSE [vis EXCEPT !.cursor = @ + 1]

\* the nodes whose Visit has returned
VisitedNodes(vis) == {i \in 1..Len(vis.file) : i < vis.cursor}

\* case *ast.File: the package clause is not walked, then the declarations
WalkFile ==
    /\ v.pc = "start"
    /\ v' = [v EXCEPT !.pc = "decls"]
    /\ UNCHANGED <<w, strict, git>>

WalkImportSpec ==
    /\ AtNode(v, "import")
    /\ v' = Advance(Visit(v, v.cursor))
    /\ UNCHANGED <<w, strict, git>>

WalkSelectorExpr ==
    /\ AtNode(v, "pkgsel")
    /\ v' = Advance(Visit(v, v.cursor))
    /\ UNCHANGED <<w, strict, git>>

WalkIdent ==
    /\ AtNode(v, "ident")
    /\ v' = Advance(Visit(v, v.cursor))
    /\ UNCHANGED <<w, strict, git>>

BuildDocument ==
    /\ v.pc = "decls"
    /\ v.cursor > Len(v.file)
    /\ \E order \in IterationOrders(v.locals) : v' = ToScipDocument(v, order)
    /\ UNCHANGED <<w, strict, git>>

\* ------------------------------------------------- a second file visitor
\* The visitors of one package run one after the other.
FirstFinished == v.pc \in {"done", "panic"}

SecondWalkFile ==
    /\ FirstFinished
    /\ w.pc = "start"
    /\ w' = [w EXCEPT !.pc = "decls"]
    /\ UNCHANGED <<v, strict, git>>

SecondWalkImportSpec ==
    /\ FirstFinished
    /\ AtNode(w, "import")
    /\ w' = Advance(Visit(w, w.cursor))
    /\ UNCHANGED <<v, strict, git>>

SecondWalkSelectorExpr ==
    /\ FirstFinished
    /\ AtNode(w, "pkgsel")
    /\ w' = Advance(Visit(w, w.cursor))
    /\ UNCHANGED <<v, strict, git>>

SecondWalkIdent ==
    /\ FirstFinished
    /\ AtNode(w, "ident")
    /\ w' = Advance(Visit(w, w.cursor))
    /\ UNCHANGED <<v, strict, git>>

SecondBuildDocument ==
    /\ FirstFinished
    /\ w.pc = "decls"
    /\ w.cursor > Len(w.file)
    /\ \E order \in IterationOrders(w.locals) : w' = ToScipDocument(w, order)
    /\ UNCHANGED <<v, strict, git>>

\* --------------------------------------------------- git.InferModuleVersion
\* Strings are sequences of characters here, so that Split and the slice of the
\* commit hash are computed as the code computes them.
Digits == {"1", "2"}

RECURSIVE Split(_, _)
\* strings.Split(s, sep) for a one-character separator: always at least one piece
Split(s, sep) ==
    IF \A k \in 1..Len(s) : s[k] # sep THEN <<s>>
    ELSE LET k == CHOOSE i \in 1..Len(s) : s[i] = sep /\ \A j \in 1..(i - 1) : s[j] # sep
         IN <<SubSeq(s, 1, k - 1)>> \o Split(SubSeq(s, k + 1, Len(s)), sep)

\* semver.NewVersion(tag) succeeds: an optional "v", then one to three
\* dot-separated runs of digits
IsSemver(tag) ==
    LET body == IF tag # <<>> /\ tag[1] = "v" THEN Tail(tag) ELSE tag
        parts == Split(body, ".")
    IN /\ Len(parts) <= 3
       /\ \A k \in 1..Len(parts) :
             parts[k] # <<>> /\ \A c \in 1..Len(parts[k]) : parts[k][c] \in Digits

ShortHashLen == 12

\* faulty variant: returns the first line of the listing whether or not a
\* later tag parses as a version
InferModuleVersion_FirstLine(tags, tagsErr, commit, commitErr) ==
    IF tagsErr THEN [version |-> <<>>, err |-> "failed to tags for current commit"]
    ELSE [version |-> Split(tags, "\n")[1], err |-> ""]

\* InferModuleVersion(dir), given what the two git commands print and whether
\* they fail
InferModuleVersion(tags, tagsErr, commit, commitErr) ==
    IF tagsErr THEN [version |-> <<>>, err |-> "failed to tags for current commit"]
    ELSE LET lines == Split(tags, "\n")
             parsed == {k \in 1..Len(lines) : IsSemver(lines[k])}
         IN IF parsed # {}
            THEN [version |-> lines[CHOOSE k \in parsed : \A j \in parsed : k <= j],
                  err |-> ""]
            ELSE IF Len(lines) > 0 THEN [version |-> lines[1], err |-> ""]
            ELSE IF commitErr
            THEN [version |-> <<>>, err |-> "failed to get current commit"]
            ELSE IF Len(commit) < ShortHashLen
            THEN [version |-> <<>>, err |-> "panic: slice bounds out of range"]
            ELSE [version |-> SubSeq(commit, 1, ShortHashLen), err |-> ""]

\* the tag names of the repository under test
TagNames ==
    {<<"1">>, <<"2">>, <<"v", "1">>, <<"1", ".", "2">>, <<"x">>, <<"v">>, <<"x", "1">>}

MaxTags == 2

\* the lists of distinct tags that can point at HEAD, in any listing order
TagLists ==
    UNION {{l \in [1..n -> TagNames] : \A a, b \in 1..n : a # b => l[a] # l[b]} :
              n \in 0..MaxTags}

RECURSIVE JoinLines(_)
JoinLines(l) ==
    IF l = <<>> THEN <<>>
    ELSE IF Len(l) = 1 THEN l[1]
    ELSE l[1] \o <<"\n">> \o JoinLines(Tail(l))

\* what "git tag -l --points-at HEAD" prints for a list of tags, with or
\* without the final newline (command.Run may or may not trim it)
TagOutput(l, trailing) ==
    IF l = <<>> THEN <<>>
    ELSE JoinLines(l) \o (IF trailing THEN <<"\n">> ELSE <<>>)

\* what "git rev-parse HEAD" prints
CommitHashes ==
    {[i \in 1..14 |-> "a"], [i \in 1..14 |-> IF i <= 12 THEN "b" ELSE "c"]}

GitIdle ==
    [pc |-> "idle", tagList |-> <<>>, tags |-> <<>>, tagsErr |-> FALSE,
     commit |-> <<>>, commitErr |-> FALSE, result |-> [version |-> <<>>, err |-> ""]]

InferVersion ==
    /\ git.pc = "called"
    /\ git' = [git EXCEPT
                  !.result = InferModuleVersion(git.tags, git.tagsErr,
                                                git.commit, git.commitErr),
                  !.pc = "done"]
    /\ UNCHANGED <<v, w, strict>>

InitVersion ==
    /\ v = Idle
    /\ w = Idle
    /\ strict = FALSE
    /\ \E l \in TagLists, trailing \in BOOLEAN, c \in CommitHashes, te, ce \in BOOLEAN :
          git = [pc |-> "called", tagList |-> l, tags |-> TagOutput(l, trailing),
                 tagsErr |-> te, commit |-> c, commitErr |-> ce,
                 result |-> [version |-> <<>>, err |-> ""]]

NextVersion == InferVersion

SpecVersion == InitVersion /\ [][NextVersion]_vars

\* ------------------------------------------------------ visitor re-entry
\* Visit is an exported method of an ast.Visitor: a driver that walks a subtree
\* again calls it for a node it has already visited.  The occurrence list is
\* capped so that the re-entries are finitely many.
MaxOccurrences == 4

Revisit ==
    /\ v.pc = "decls"
    /\ Len(v.occurrences) < MaxOccurrences
    /\ \E i \in VisitedNodes(v) : v' = Visit(v, i)
    /\ UNCHANGED <<w, strict, git>>

Init ==
    /\ \E f \in Files(MaxLen) : \E cc \in CaseClauseMaps(f) : v = NewFileVisitor(f, cc)
    /\ w = Idle
    /\ strict \in BOOLEAN
    /\ git = GitIdle

Next == WalkFile \/ WalkImportSpec \/ WalkSelectorExpr \/ WalkIdent \/ BuildDocument

Spec == Init /\ [][Next]_vars

NextTwo ==
    \/ Next
    \/ SecondWalkFile \/ SecondWalkImportSpec \/ SecondWalkSelectorExpr
    \/ SecondWalkIdent \/ SecondBuildDocument

\* the same package and file indexed twice
InitRerun ==
    /\ \E f \in Files(MaxLen2) :
           /\ \E cc \in CaseClauseMaps(f) : v = NewFileVisitor(f, cc)
           /\ \E cc \in CaseClauseMaps(f) : w = NewFileVisitor(f, cc)
    /\ strict \in BOOLEAN
    /\ git = GitIdle

SpecRerun == InitRerun /\ [][NextTwo]_vars

\* two files of one package, each with its own visitor
InitTwoFiles ==
    /\ \E f \in FilesOver(LocalNodes, MaxLen2) :
           \E cc \in CaseClauseMaps(f) : v = NewFileVisitor(f, cc)
    /\ \E f \in FilesOver(LocalNodes, MaxLen2) :
           \E cc \in CaseClauseMaps(f) : w = NewFileVisitor(f, cc)
    /\ strict \in BOOLEAN
    /\ git = GitIdle

SpecTwoFiles == InitTwoFiles /\ [][NextTwo]_vars

\* one file, walked once and re-entered any number of times
InitReentry ==
    /\ \E f \in Files(MaxLen2) : \E cc \in CaseClauseMaps(f) : v = NewFileVisitor(f, cc)
    /\ w = Idle
    /\ strict \in BOOLEAN
    /\ git = GitIdle

NextReentry == Next \/ Revisit

SpecReentry == InitReentry /\ [][NextReentry]_vars

\* ============================================================= properties
\* the indices of the occurrences that start at a token, after the package occurrence
OccsAt(vis, pos) ==
    {k \in 2..Len(vis.occurrences) :
        /\ vis.occurrences[k].range[1] = Position(pos).line
        /\ vis.occurrences[k].range[2] = Position(pos).col}

DefsAt(vis, pos) == {k \in OccsAt(vis, pos) : vis.occurrences[k].roles = symbolDefinition}
RefsAt(vis, pos) == {k \in OccsAt(vis, pos) : vis.occurrences[k].roles = symbolReference}

SymbolsOf(vis, ks) == {vis.occurrences[k].symbol : k \in ks}

\* the strings "local N"
IsLocalSymbol(sym) == \E n \in 0..(2 * MaxLen + 2) : sym = "local " \o ToString(n)

\* (entity, symbol) for every identifier token visited so far that Defs or Uses
\* maps to an entity and for which an occurrence was emitted
EntitySymbols(vis) ==
    UNION {
        (IF DefsOf(vis.file, i) # Nil
         THEN {<<DefsOf(vis.file, i), y>> : y \in SymbolsOf(vis, DefsAt(vis, Pos(i)))}
         ELSE {})
        \cup
        (IF UsesOf(vis.file, i) # Nil
         THEN {<<UsesOf(vis.file, i), y>> : y \in SymbolsOf(vis, RefsAt(vis, Pos(i)))}
         ELSE {})
        \cup
        (IF vis.file[i].k = "pkgsel"
         THEN {<<SelUsesOf(vis.file, i), y>> : y \in SymbolsOf(vis, RefsAt(vis, Pos2(i)))}
         ELSE {})
        : i \in VisitedNodes(vis)}

\* C1 (as claimed): any two identifier tokens that Defs/Uses map to the same
\* entity have occurrences with identical symbol strings.
C1_SymbolConsistency ==
    \A a, b \in EntitySymbols(v) : a[1] = b[1] => a[2] = b[2]

\* the identifier tokens of a file: position and name
Tokens(f) ==
    UNION {
        CASE f[i].k = "import" ->
                IF f[i].name \in {"", "."} THEN {} ELSE {[pos |-> Pos(i), name |-> f[i].name]}
          [] f[i].k = "pkgsel" ->
                {[pos |-> Pos(i), name |-> UsesOf(f, i).name],
                 [pos |-> Pos2(i), name |-> SelUsesOf(f, i).name]}
          [] OTHER -> {[pos |-> Pos(i), name |-> IdentName(f[i])]}
        : i \in 1..Len(f)}

Covered(vis, t) ==
    \E k \in 2..Len(vis.occurrences) :
        /\ vis.occurrences[k].range[1] = Position(t.pos).line
        /\ vis.occurrences[k].range[2] <= Position(t.pos).col
        /\ vis.occurrences[k].range[3] >= Position(t.pos).col + Len(t.name)

\* C3 (as claimed): on valid input, once the traversal is complete every
\* non-blank identifier token is covered by at least one occurrence.
C3_ResolutionTotality ==
    (v.pc = "done" /\ ValidInput(v.file)) =>
        \A t \in Tokens(v.file) : t.name # "_" => Covered(v, t)

\* C6 (as claimed): no occurrence starts at an identifier token named "_" and
\* no local is minted at its position.
C6_BlankIdentifier ==
    \A t \in Tokens(v.file) :
        t.name = "_" => (OccsAt(v, t.pos) = {} /\ ~HasLocal(v, t.pos))

\* ---------------------------------------------------------------- C5
StartLE(a, b) ==
    \/ a.range[1] < b.range[1]
    \/ a.range[1] = b.range[1] /\ a.range[2] <= b.range[2]

OrderedAfterPackage(occ) ==
    /\ Len(occ) >= 1
    /\ occ[1] = PackageOccurrence
    /\ \A k \in 2..(Len(occ) - 1) : StartLE(occ[k], occ[k + 1])

AppendOnly(old, new) ==
    /\ Len(new) >= Len(old)
    /\ SubSeq(new, 1, Len(old)) = old

\* C5: at every point of the traversal the occurrence list starts with the
\* package-clause occurrence, the start positions after it are non-decreasing,
\* and a step only ever appends to the list.
C5_Order ==
    /\ [](OrderedAfterPackage(v.occurrences))
    /\ [][AppendOnly(v.occurrences, v'.occurrences)]_vars

\* a finished document with a definition followed by a reference to it and
\* at least three occurrences after the package occurrence
C5_Witness ==
    /\ v.pc = "done"
    /\ Len(v.occurrences) >= 4
    /\ \E i, j \in VisitedNodes(v) :
          i < j /\ IsTok(v.file[i], "defx") /\ IsTok(v.file[j], "usex")

\* ---------------------------------------------------------------- C7
\* the reference the import path of node i gets
PathReference(f, i) ==
    [range |-> <<i, 5, 5 + Len(f[i].path)>>,
     symbol |-> "scip-go gomod " \o f[i].path \o " v1 " \o f[i].path \o "/",
     roles |-> symbolReference, doc |-> <<>>]

\* C7 (as claimed): a renamed import of a loaded, minted package mints a fresh
\* local, emits its definition at the alias and then the reference at the
\* path; every later selector through that alias emits a reference to that
\* same local at the qualifier and then a reference to the global symbol of Sel.
C7_RenamedImport ==
    (ValidInput(v.file) /\ ~Panicked(v)) =>
        \A i \in VisitedNodes(v) :
            (v.file[i].k = "import" /\ v.file[i].name \notin {"", "."}) =>
                /\ HasLocal(v, Pos(i))
                /\ \A l \in v.locals :
                      l.Symbol = LocalAt(v, Pos(i)).Symbol => l.pos = Pos(i)
                /\ \E k \in 2..(Len(v.occurrences) - 1) :
                      /\ v.occurrences[k] =
                            [range |-> <<i, 0, Len(v.file[i].name)>>,
                             symbol |-> LocalAt(v, Pos(i)).Symbol,
                             roles |-> symbolDefinition, doc |-> <<>>]
                      /\ v.occurrences[k + 1] = PathReference(v.file, i)
                /\ \A j \in VisitedNodes(v) :
                      (v.file[j].k = "pkgsel" /\ v.file[j].imp = i) =>
                          \E m \in 2..(Len(v.occurrences) - 1) :
                              /\ v.occurrences[m] =
                                    [range |-> <<j, 0, Len(v.file[i].name)>>,
                                     symbol |-> LocalAt(v, Pos(i)).Symbol,
                                     roles |-> symbolReference, doc |-> <<>>]
                              /\ v.occurrences[m + 1] =
                                    [range |-> <<j, 4, 7>>,
                                     symbol |-> "scip-go gomod a/b v1 Bar().",
                                     roles |-> symbolReference, doc |-> <<>>]

\* ---------------------------------------------------------------- C8
\* C8: visiting a dot-import mints no local, stores no override and emits no
\* definition: it appends only the reference at the import path (nothing when
\* the path is not loaded or has no package-name symbol); an unqualified use of
\* an entity of the dot-imported package appends exactly one reference to that
\* entity's global symbol.
C8_DotImport ==
    [][/\ (AtNode(v, "import") /\ v.file[v.cursor].name = ".") =>
            /\ v'.locals = v.locals
            /\ v'.pkgNameOverride = v.pkgNameOverride
            /\ v'.occurrences =
                  IF v.file[v.cursor].path = "a/b"
                  THEN Append(v.occurrences, PathReference(v.file, v.cursor))
                  ELSE v.occurrences
       /\ (AtNode(v, "ident") /\ v.file[v.cursor].tok = "useBar") =>
            /\ v'.locals = v.locals
            /\ v'.occurrences =
                  Append(v.occurrences,
                         [range |-> <<v.cursor, 0, 3>>,
                          symbol |-> "scip-go gomod a/b v1 Bar().",
                          roles |-> symbolReference, doc |-> <<>>])
      ]_vars

\* a dot-import and an unqualified use of the imported Bar have both been visited
C8_Witness ==
    \E i, j \in VisitedNodes(v) :
        /\ v.file[i].k = "import" /\ v.file[i].name = "."
        /\ IsTok(v.file[j], "useBar")
        /\ RefsAt(v, Pos(j)) # {}

\* ---------------------------------------------------------------- C9
TypeSwitchVisited(vis) ==
    /\ Has(vis.file, "tsv")
    /\ IndexOf(vis.file, "tsv") \in VisitedNodes(vis)

\* C9 (as claimed): a type switch with a *T case and a default clause yields
\* two local definition occurrences for v, each with its own local symbol.
C9_TwoDefinitions ==
    (v.pc = "done" /\ Has(v.file, "tsv")) =>
        LET ks == DefsAt(v, Pos(IndexOf(v.file, "tsv")))
        IN /\ Cardinality(ks) = 2
           /\ Cardinality(SymbolsOf(v, ks)) = 2
           /\ \A y \in SymbolsOf(v, ks) : IsLocalSymbol(y)

\* C9 (amended): the type switch yields exactly one local definition occurrence
\* for v, at the header identifier; the one local minted at that position is
\* shared by the bindings of all clauses, and every reference to v in either
\* clause carries that local.
C9_OneDefinition ==
    TypeSwitchVisited(v) =>
        LET p == Pos(IndexOf(v.file, "tsv"))
        IN /\ Cardinality(OccsAt(v, p)) = 1
           /\ Cardinality(DefsAt(v, p)) = 1
           /\ HasLocal(v, p)
           /\ Cardinality({l \in v.locals : l.pos = p}) = 1
           /\ SymbolsOf(v, DefsAt(v, p)) = {LocalAt(v, p).Symbol}
           /\ IsLocalSymbol(LocalAt(v, p).Symbol)
           /\ LocalAt(v, p).Obj \in ImplicitCaseObjs(v.file)
           /\ \A j \in VisitedNodes(v) :
                 (IsTok(v.file[j], "usev1") \/ IsTok(v.file[j], "usev2")) =>
                     /\ Cardinality(RefsAt(v, Pos(j))) = 1
                     /\ SymbolsOf(v, RefsAt(v, Pos(j))) = {LocalAt(v, p).Symbol}

\* a finished document of a file with the switch header and a use of v in each clause
C9_Witness ==
    /\ v.pc = "done"
    /\ Has(v.file, "tsv") /\ Has(v.file, "usev1") /\ Has(v.file, "usev2")
    /\ Cardinality(DefsAt(v, Pos(IndexOf(v.file, "tsv")))) = 1

\* ---------------------------------------------------------------- C2
\* the "local N" strings of a document, in its occurrences and its symbols list
LocalStrings(doc) ==
    {doc.occurrences[k].symbol : k \in 1..Len(doc.occurrences)}
        \cup {doc.symbols[k].symbol : k \in 1..Len(doc.symbols)}

LocalsOf(doc) == {y \in LocalStrings(doc) : IsLocalSymbol(y)}

\* C2 (as claimed): no "local N" string appears in the documents of two files.
C2_LocalScoping ==
    (v.pc = "done" /\ w.pc = "done") =>
        LocalsOf(Document(v)) \cap LocalsOf(Document(w)) = {}

\* every "local N" of the visitor's document names exactly one local of the
\* visitor's own map, minted at the position of a node of its own file
OwnLocals(vis) ==
    \A y \in LocalsOf(Document(vis)) :
        /\ Cardinality({l \in vis.locals : l.Symbol = y}) = 1
        /\ \A l \in vis.locals :
              l.Symbol = y => \E i \in 1..Len(vis.file) : l.pos = Pos(i)

\* C2 (amended): a "local N" string is scoped to its document: in each of the
\* two documents it names exactly one local minted by that file's own visitor
\* at a position of that file; the same string may appear in both documents.
C2_LocalsOwnDocument ==
    /\ OwnLocals(v)
    /\ OwnLocals(w)

\* both documents are built, each with two locals, and they share a local string
C2_Witness ==
    /\ v.pc = "done" /\ w.pc = "done"
    /\ v.file # w.file
    /\ Cardinality(v.locals) >= 2 /\ Cardinality(w.locals) >= 2
    /\ LocalsOf(Document(v)) \cap LocalsOf(Document(w)) # {}

\* ---------------------------------------------------------------- C4
\* C4 (as claimed): two runs of the visitor on the same file and tables
\* produce identical documents.
C4_Determinism ==
    (v.pc = "done" /\ w.pc = "done" /\ v.file = w.file) =>
        Document(v) = Document(w)

\* ---------------------------------------------------------------- C10
\* C10 (as claimed): when the tag listing succeeds and lists no tag, the
\* result is the first 12 characters of the HEAD commit hash, never empty.
C10_FallbackToCommit ==
    (git.pc = "done" /\ ~git.tagsErr /\ git.tagList = <<>> /\ ~git.commitErr) =>
        /\ git.result.err = ""
        /\ git.result.version # <<>>
        /\ git.result.version = SubSeq(git.commit, 1, 12)

\* ---------------------------------------------------------------- C11
DigitValue(c) == IF c = "1" THEN 1 ELSE 2

\* the (major, minor, patch) a tag parses to; missing parts are 0
SemverKey(tag) ==
    LET body == IF tag # <<>> /\ tag[1] = "v" THEN Tail(tag) ELSE tag
        parts == Split(body, ".")
        num(k) == IF k <= Len(parts) THEN DigitValue(parts[k][1]) ELSE 0
    IN <<num(1), num(2), num(3)>>

SemverLess(a, b) ==
    \/ a[1] < b[1]
    \/ a[1] = b[1] /\ a[2] < b[2]
    \/ a[1] = b[1] /\ a[2] = b[2] /\ a[3] < b[3]

TagsAtHead == {git.tagList[k] : k \in 1..Len(git.tagList)}

TagsListed == git.pc = "done" /\ ~git.tagsErr /\ git.tagList # <<>>

\* C11 (as claimed): with tags at HEAD, the result is the newest semver tag
\* among them if any tag parses as a version, whatever the listing order, and
\* otherwise one of the tags.
C11_NewestSemverTag ==
    TagsListed =>
        /\ git.result.err = ""
        /\ git.result.version \in TagsAtHead
        /\ (\E t \in TagsAtHead : IsSemver(t)) =>
              /\ IsSemver(git.result.version)
              /\ \A t \in TagsAtHead :
                    IsSemver(t) => ~SemverLess(SemverKey(git.result.version), SemverKey(t))

\* C11 (amended): with tags at HEAD, the result is the first tag in listing
\* order that parses as a version, newest or not, and the first listed tag
\* when none parses.
C11_FirstSemverTag ==
    TagsListed =>
        /\ git.result.err = ""
        /\ \E k \in 1..Len(git.tagList) :
              /\ git.result.version = git.tagList[k]
              /\ \A j \in 1..(k - 1) : ~IsSemver(git.tagList[j])
              /\ IsSemver(git.tagList[k]) \/ (k = 1 /\ \A t \in TagsAtHead : ~IsSemver(t))

\* two version tags at HEAD, the older listed first: the older one is returned
C11_Witness ==
    /\ TagsListed
    /\ Len(git.tagList) = 2
    /\ IsSemver(git.tagList[1]) /\ IsSemver(git.tagList[2])
    /\ SemverLess(SemverKey(git.tagList[1]), SemverKey(git.tagList[2]))
    /\ git.result.version = git.tagList[1]

\* ---------------------------------------------------------------- C12
\* node i is an identifier that is in Defs and in Uses
DefAndUse(f, i) == f[i].k = "ident" /\ DefsOf(f, i) # Nil /\ UsesOf(f, i) # Nil

\* sym is the symbol of the entity obj: its entry in the package symbol table
\* or the global index, or the local this visitor bound to it
IsSymbolOf(vis, obj, sym) ==
    \/ \E e \in GlobalTable(vis.file) : e.pkg = obj.pkg /\ e.pos = obj.pos /\ e.symbol = sym
    \/ \E l \in vis.locals : l.pos = obj.pos /\ l.Obj = obj /\ l.Symbol = sym

HasSymbol(vis, obj) ==
    \/ \E e \in GlobalTable(vis.file) : e.pkg = obj.pkg /\ e.pos = obj.pos
    \/ \E l \in vis.locals : l.pos = obj.pos

\* the visit of node i appended exactly a definition and then a reference,
\* with one range, carrying the declared and the used entity's symbols
AppendedDefThenRef(old, new, i) ==
    LET n == Len(old.occurrences) IN
    /\ Len(new.occurrences) = n + 2
    /\ SubSeq(new.occurrences, 1, n) = old.occurrences
    /\ new.occurrences[n + 1].roles = symbolDefinition
    /\ new.occurrences[n + 2].roles = symbolReference
    /\ new.occurrences[n + 1].range = new.occurrences[n + 2].range
    /\ new.occurrences[n + 1].range[1] = Position(Pos(i)).line
    /\ new.occurrences[n + 1].range[2] = Position(Pos(i)).col
    /\ IsSymbolOf(new, DefsOf(new.file, i), new.occurrences[n + 1].symbol)
    /\ IsSymbolOf(new, UsesOf(new.file, i), new.occurrences[n + 2].symbol)

\* the visit of node i appended exactly a definition of the declared entity
AppendedDefOnly(old, new, i) ==
    LET n == Len(old.occurrences) IN
    /\ Len(new.occurrences) = n + 1
    /\ SubSeq(new.occurrences, 1, n) = old.occurrences
    /\ new.occurrences[n + 1].roles = symbolDefinition
    /\ new.occurrences[n + 1].range[1] = Position(Pos(i)).line
    /\ new.occurrences[n + 1].range[2] = Position(Pos(i)).col
    /\ IsSymbolOf(new, DefsOf(new.file, i), new.occurrences[n + 1].symbol)

VisitsDefAndUse ==
    /\ v.pc = "decls"
    /\ v'.cursor = v.cursor + 1
    /\ DefAndUse(v.file, v.cursor)

\* C12 (as claimed): the visit of an identifier that is in Defs and in Uses
\* appends the definition occurrence immediately before the reference
\* occurrence, both with the same range, the definition carrying the declared
\* entity's symbol and the reference the used entity's symbol.
C12_DefThenRef ==
    [][VisitsDefAndUse => AppendedDefThenRef(v, v', v.cursor)]_vars

\* C12, apart from the dropped reference: the definition occurrence is always
\* appended first; the reference follows immediately with the same range when
\* the used entity has a symbol (a local binding or an entry of the global
\* index), and only the definition is appended when it has none.
C12_DefFirst ==
    [][VisitsDefAndUse =>
          IF HasSymbol(v, UsesOf(v.file, v.cursor))
          THEN AppendedDefThenRef(v, v', v.cursor)
          ELSE AppendedDefOnly(v, v', v.cursor)]_vars

\* ---------------------------------------------------------------- C13
LocalName(n) == "local " \o ToString(n)

\* the symbols of the locals map are local 0 .. local n-1, one per local, and
\* no two locals share a position
NumberedLocals(vis) ==
    LET n == Cardinality(vis.locals) IN
    /\ {l.Symbol : l \in vis.locals} = {LocalName(k) : k \in 0..(n - 1)}
    /\ \A a, b \in vis.locals : a # b => a.Symbol # b.Symbol /\ a.pos # b.pos

\* a visit keeps the locals it found and gives a local it mints the next number
MintsNext(old, new) ==
    /\ old.locals \subseteq new.locals
    /\ \A l \in new.locals \ old.locals : l.Symbol = LocalName(Cardinality(old.locals))

\* C13: the k-th local minted in a file has the symbol "local k-1"; at every
\* point the symbols of the locals map are pairwise distinct, are exactly
\* local 0 .. local n-1 for n locals, and each is bound to a distinct position.
C13_LocalNumbering ==
    /\ [](NumberedLocals(v))
    /\ [][MintsNext(v, v')]_vars

\* three locals minted: the third one is local 2
C13_Witness ==
    /\ Cardinality(v.locals) = 3
    /\ \E l \in v.locals : l.Symbol = LocalName(2) /\ l.pos = Pos(3)
    /\ \E l \in v.locals : l.Symbol = LocalName(0) /\ l.pos = Pos(1)

\* ---------------------------------------------------------------- C14
\* the position at which Visit of node i asks createNewLocalSymbol for a local
\* (0 when it asks for none)
MintRequest(vis, i) ==
    LET n == vis.file[i]
        id == IdentAt(vis.file, i)
    IN CASE n.k = "import" ->
                IF ImportedPackage(n.path) # "" /\ n.name \notin {"", "."} THEN Pos(i) ELSE 0
         [] n.k = "pkgsel" -> 0
         [] OTHER ->
                IF id.name = "_" THEN 0
                ELSE IF HasCaseClause(vis, id.pos) THEN CaseClauseAt(vis, id.pos).pos
                ELSE IF id.def # Nil /\ ~PkgGetSymbol(vis.file, id.def.pos).ok
                        /\ ~GlobalGetSymbol(vis.file, "self", id.def.pos).ok
                THEN id.def.pos
                ELSE 0

\* this step is a call of Visit for node i
IsVisitOf(i) == v.pc = "decls" /\ v' \in {Visit(v, i), Advance(Visit(v, i))}

\* C14: a request to mint a local at a position that already owns a local
\* aborts the run, leaves the locals map as it was and appends no occurrence;
\* no step overwrites or renumbers a local.
C14_RemintingAborts ==
    /\ [][\A i \in 1..Len(v.file) :
            (IsVisitOf(i) /\ MintRequest(v, i) # 0 /\ HasLocal(v, MintRequest(v, i))) =>
                /\ Panicked(v')
                /\ v'.locals = v.locals
                /\ v'.occurrences = v.occurrences]_vars
    /\ [][\A l \in v.locals : l \in v'.locals]_vars

\* the run was aborted at a node whose position owns a local, with two locals
\* in the map and every visited node's occurrences in place
C14_Witness ==
    /\ Panicked(v)
    /\ ~strict
    /\ Cardinality(v.locals) = 2
    /\ v.cursor > Len(v.file)
    /\ \E i \in VisitedNodes(v) : MintRequest(v, i) # 0 /\ HasLocal(v, MintRequest(v, i))

\* ---------------------------------------------------------------- C15
\* the import path of node i does not resolve
UnresolvedImport(f, i) == f[i].k = "import" /\ ImportedPackage(f[i].path) = ""

\* node i is an identifier that refers to an entity with no local binding
\* whose owner is unknown or which the global index does not find
UnresolvedUse(vis, i) ==
    LET id == IdentAt(vis.file, i) IN
    /\ vis.file[i].k = "ident"
    /\ id.name # "_"
    /\ ~HasCaseClause(vis, id.pos)
    /\ id.use # Nil
    /\ ~HasLocal(vis, id.use.pos)
    /\ LET found == GetSymbolOfObject(vis.file, id.use) IN found.err \/ ~found.ok

\* node i is an identifier with neither a Defs nor a Uses entry
NeitherDefNorUse(vis, i) ==
    LET id == IdentAt(vis.file, i) IN
    /\ vis.file[i].k = "ident"
    /\ id.name # "_"
    /\ ~HasCaseClause(vis, id.pos)
    /\ id.def = Nil /\ id.use = Nil

Degrading(vis, i) ==
    UnresolvedImport(vis.file, i) \/ UnresolvedUse(vis, i) \/ NeitherDefNorUse(vis, i)

\* a step of the single traversal in lenient mode that visits a degrading node
VisitsDegrading ==
    /\ ~strict
    /\ v.pc = "decls"
    /\ v.cursor <= Len(v.file)
    /\ v' # v
    /\ Degrading(v, v.cursor)

OverridesUnchanged ==
    /\ v'.pkgNameOverride = v.pkgNameOverride
    /\ v'.caseClauses = v.caseClauses

Continues == v'.pc = "decls" /\ v'.cursor = v.cursor + 1

\* C15 (as claimed): in lenient mode the visit of an unresolved import, of a
\* use whose entity is unknown or not found, or of an identifier in neither
\* table appends no occurrence, leaves the locals and the override maps
\* unchanged, and the traversal goes on to the next node.
C15_NoOccurrence ==
    [][VisitsDegrading =>
          /\ v'.occurrences = v.occurrences
          /\ v'.locals = v.locals
          /\ OverridesUnchanged
          /\ Continues]_vars

\* C15 (amended): the visit appends no reference occurrence and changes no
\* earlier occurrence and no override map, and the traversal goes on to the
\* next node; when the identifier also declares an entity (an embedded field)
\* the visit still appends that definition occurrence and keeps the local it
\* minted for it, and these are its only changes.
C15_NoReference ==
    [][VisitsDegrading =>
          LET i == v.cursor
              n == Len(v.occurrences)
              declares == v.file[i].k = "ident" /\ DefsOf(v.file, i) # Nil
          IN /\ OverridesUnchanged
             /\ Continues
             /\ IF declares
                THEN /\ AppendedDefOnly(v, v', i)
                     /\ v.locals \subseteq v'.locals
                     /\ \A l \in v'.locals \ v.locals :
                           l.pos = Pos(i) /\ l.Obj = DefsOf(v.file, i)
                ELSE /\ v'.occurrences = v.occurrences
                     /\ v'.locals = v.locals]_vars

\* a finished lenient run over an unresolved import, then an identifier in
\* neither table, then an embedded predeclared type of a local struct: only the
\* definition of the field was appended, with its local
C15_Witness ==
    /\ ~strict
    /\ v.pc = "done"
    /\ Len(v.file) = 3
    /\ UnresolvedImport(v.file, 1)
    /\ IsTok(v.file[2], "none")
    /\ IsTok(v.file[3], "embLocErr")
    /\ Len(v.occurrences) = 2
    /\ v.occurrences[2].roles = symbolDefinition
    /\ Cardinality(v.locals) = 1

\* ---------------------------------------------------------------- C16
\* node i is a visited selector X.Sel whose package has no override and no
\* package-name symbol in the global index
MissingPkgNameSymbol(vis, i) ==
    /\ i \in VisitedNodes(vis)
    /\ vis.file[i].k = "pkgsel"
    /\ ~HasOverride(vis, UsesOf(vis.file, i).imported)
    /\ GetPkgNameSymbol(UsesOf(vis.file, i).imported) = ""

\* C16 (as claimed): in lenient mode only the reference for X is skipped; Sel
\* is still walked and has the reference to its entity's global symbol.
C16_SelStillWalked ==
    ~strict =>
        \A i \in 1..Len(v.file) :
            MissingPkgNameSymbol(v, i) =>
                /\ OccsAt(v, Pos(i)) = {}
                /\ Cardinality(RefsAt(v, Pos2(i))) = 1
                /\ \A k \in RefsAt(v, Pos2(i)) :
                      IsSymbolOf(v, SelUsesOf(v.file, i), v.occurrences[k].symbol)

\* ---------------------------------------------------------------- C17
\* a step of the traversal that visits an identifier with a Defs entry for
\* which the definition step runs
VisitsDeclaration ==
    /\ v.pc = "decls"
    /\ v.cursor <= Len(v.file)
    /\ v.file[v.cursor].k = "ident"
    /\ DefsOf(v.file, v.cursor) # Nil
    /\ IdentName(v.file[v.cursor]) # "_"
    /\ ~HasCaseClause(v, Pos(v.cursor))
    /\ v' # v

InPkgTable(f, pos) == {e.symbol : e \in {x \in PkgSymbolTable(f) : x.pos = pos}}
InGlobalIndex(f, pos) ==
    {e.symbol : e \in {x \in GlobalTable(f) : x.pkg = "self" /\ x.pos = pos}}

\* C17: the definition occurrence of an identifier with a Defs entry carries
\* the package symbol table's symbol for the entity's position if there is
\* one, else the global index's symbol for (package, position) if there is
\* one, else a newly minted local; a local is minted only when both miss.
C17_DefinitionPriority ==
    [][VisitsDeclaration =>
          LET def == DefsOf(v.file, v.cursor)
              occ == v'.occurrences[Len(v.occurrences) + 1]
              fresh == [pos |-> def.pos, Symbol |-> LocalName(Cardinality(v.locals)),
                        Obj |-> def]
          IN /\ Len(v'.occurrences) > Len(v.occurrences)
             /\ occ.roles = symbolDefinition
             /\ IF InPkgTable(v.file, def.pos) # {}
                THEN occ.symbol \in InPkgTable(v.file, def.pos) /\ v'.locals = v.locals
                ELSE IF InGlobalIndex(v.file, def.pos) # {}
                THEN occ.symbol \in InGlobalIndex(v.file, def.pos) /\ v'.locals = v.locals
                ELSE occ.symbol = fresh.Symbol /\ v'.locals = v.locals \cup {fresh}]_vars

\* a finished file that declares a package-level function, an entity only the
\* global index knows and a local variable, in this order: three definitions,
\* one local
C17_Witness ==
    /\ v.pc = "done"
    /\ Len(v.file) = 3
    /\ IsTok(v.file[1], "defG") /\ IsTok(v.file[2], "defH") /\ IsTok(v.file[3], "defx")
    /\ Len(v.occurrences) = 4
    /\ v.occurrences[2].symbol = GlobalSym("self", "G().")
    /\ v.occurrences[3].symbol = GlobalSym("self", "H.")
    /\ v.occurrences[4].symbol = LocalName(0)
    /\ Cardinality(v.locals) = 1

\* ---------------------------------------------------------------- C18
\* the static type of the identifier at node i, as the type checker records it
\* for that node (in a case clause: the type narrowed by the clause)
StaticType(f, i) ==
    CASE IsTok(f[i], "usev1") -> "*T"
      [] IsTok(f[i], "usev2") -> "I"
      [] OTHER -> UsesOf(f, i).typ

\* the override documentation the reference at the first identifier of node i
\* is to carry
ExpectedOverride(vis, i) ==
    LET u == UsesOf(vis.file, i) IN
    IF HasLocal(vis, u.pos) /\ HasCaseClause(vis, u.pos)
    THEN <<FormatCode(StaticType(vis.file, i))>>
    ELSE <<>>

\* C18: a reference occurrence carries override documentation exactly when
\* the referenced entity's position has a local binding in this file and is a
\* case-clause override site; the documentation is then the static type of the
\* referring node, and every other reference carries none.
C18_OverrideDocumentation ==
    \A k \in 2..Len(v.occurrences) :
        LET occ == v.occurrences[k]
            i == occ.range[1]
        IN occ.roles = symbolReference =>
              IF v.file[i].k = "ident" /\ occ.range[2] = Position(Pos(i)).col
              THEN occ.doc = ExpectedOverride(v, i)
              ELSE occ.doc = <<>>

\* a finished file with the switch header and a use of v in each clause, where
\* the case-clause table kept the default clause's entity: the use in the *T
\* clause documents *T, the use in the default clause documents I
C18_Witness ==
    /\ v.pc = "done"
    /\ v.file = <<Ident("tsv"), Ident("usev1"), Ident("usev2")>>
    /\ CaseClauseAt(v, Pos(1)).typ = "I"
    /\ v.occurrences[3].doc = <<FormatCode("*T")>>
    /\ v.occurrences[4].doc = <<FormatCode("I")>>

\* ---------------------------------------------------------------- C19
SymbolInfosOf(doc, sym) == {k \in 1..Len(doc.symbols) : doc.symbols[k].symbol = sym}

DefinitionsOf(doc, sym) ==
    {k \in 1..Len(doc.occurrences) :
        doc.occurrences[k].symbol = sym /\ doc.occurrences[k].roles = symbolDefinition}

\* C19: in the document ToScipDocument builds, every "local N" carried by an
\* occurrence has exactly one SymbolInformation and exactly one definition
\* occurrence, and every local SymbolInformation belongs to a local that has a
\* definition occurrence.
C19_LocalClosure ==
    v.pc = "done" =>
        LET doc == Document(v) IN
        /\ \A k \in 1..Len(doc.occurrences) :
              IsLocalSymbol(doc.occurrences[k].symbol) =>
                  /\ Cardinality(SymbolInfosOf(doc, doc.occurrences[k].symbol)) = 1
                  /\ Cardinality(DefinitionsOf(doc, doc.occurrences[k].symbol)) = 1
        /\ \A k \in 1..Len(doc.symbols) :
              IsLocalSymbol(doc.symbols[k].symbol) =>
                  /\ \E l \in v.locals : l.Symbol = doc.symbols[k].symbol
                  /\ DefinitionsOf(doc, doc.symbols[k].symbol) # {}

\* a document with two locals, a renamed import and a variable, and a
\* reference to the import's local at a qualifier
C19_Witness ==
    /\ v.pc = "done"
    /\ Cardinality(v.locals) = 2
    /\ Len(v.file) = 3
    /\ v.file[1] = Import("foo", "a/b")
    /\ v.file[2] = PkgSel(1)
    /\ IsTok(v.file[3], "defx")
    /\ RefsAt(v, Pos(2)) # {}
    /\ SymbolsOf(v, RefsAt(v, Pos(2))) = {LocalName(0)}
    /\ Len(v.symbols) = 2

\* ---------------------------------------------------------------- C20
\* the node the single traversal visits next asks for a local at a position
\* that already owns one
NextRequestOwned ==
    /\ v.pc = "decls"
    /\ v.cursor <= Len(v.file)
    /\ MintRequest(v, v.cursor) # 0
    /\ HasLocal(v, MintRequest(v, v.cursor))

\* C20: when every node of a file is visited at most once, no visit asks for a
\* local at an owned position, so the abort of createNewLocalSymbol is never
\* reached (in lenient mode the run is never aborted at all), for every mix of
\* renamed imports, local declarations and type switches.
C20_NoAbortOnSingleTraversal ==
    /\ ~NextRequestOwned
    /\ ~strict => ~Panicked(v)

\* a finished file with a renamed import, a type switch whose two clause
\* entities share the header position, and a local declaration: three locals
C20_Witness ==
    /\ v.pc = "done"
    /\ v.file = <<Import("foo", "a/b"), Ident("tsv"), Ident("defx")>>
    /\ Cardinality(ImplicitCaseObjs(v.file)) = 2
    /\ Cardinality(v.locals) = 3

====
